---- MODULE Spec2Model ----
(***************************************************************************)
(* Decision simulator of the cross-border fraud risk dashboard             *)
(* (streamlit_app.py, tab "Decision Simulator").                           *)
(*                                                                         *)
(* The dashboard is a Streamlit script: every widget interaction re-runs   *)
(* the script from top to bottom with the current widget values.  The      *)
(* state kept between runs is the cached dataset df and the widget values; *)
(* sim_df, sim_dist, orig_dist and the three metrics are rebuilt by every  *)
(* run.  Tabs 1, 3 and 4 only read df to render charts and tables.         *)
(*                                                                         *)
(* Numbers: risk scores and risk thresholds are in hundredths (0.90 is     *)
(* 90), trust scores in points.  A percentage is a float64, computed with   *)
(* IEEE 754 rounding; a formatted percentage (":.2f") is an integer number *)
(* of hundredths of a percent.                                             *)
(***************************************************************************)
EXTENDS Integers, Sequences, FiniteSets, TLC

VARIABLES df, sim_df, block_threshold, review_threshold, trust_override,
          min_risk, sim_dist, orig_dist, metrics, fault

vars == <<df, sim_df, block_threshold, review_threshold, trust_override,
          min_risk, sim_dist, orig_dist, metrics, fault>>

\* ------------------------------------------------------------------ bounds
MaxRecords == 3

\* ---------------------------------------------------------------- widgets
\* st.slider(label, min, max, value, step)
BlockSlider == [min |-> 50, max |-> 100, value |-> 90, step |-> 5]
ReviewSlider == [min |-> 10, max |-> 90, value |-> 60, step |-> 5]
TrustSlider == [min |-> 0, max |-> 100, value |-> 70, step |-> 5]
MinRiskSlider == [min |-> 0, max |-> 100, value |-> 0, step |-> 5]

SliderValues(s) == {s.min + k * s.step : k \in 0..((s.max - s.min) \div s.step)}

\* the slider positions the analyst moves to
BlockChoices == {70, 90} \cap SliderValues(BlockSlider)
ReviewChoices == {60, 70, 90} \cap SliderValues(ReviewSlider)
TrustChoices == {70, 75} \cap SliderValues(TrustSlider)
MinRiskChoices == {0, 70} \cap SliderValues(MinRiskSlider)

\* ---------------------------------------------------------------- dataset
Decisions == {"ALLOW", "REVIEW", "BLOCK"}

Row(risk, trust, decision) ==
    [ml_risk_score |-> risk, trust_score |-> trust, decision |-> decision]

\* the rows the monthly files are made of: risk scores below, between, at and
\* above the slider positions, trust scores below and at or above them, and
\* original decisions that agree and disagree with the default policy
Records ==
    {Row(50, 50, "ALLOW"), Row(70, 50, "REVIEW"), Row(70, 75, "REVIEW"),
     Row(95, 75, "BLOCK"), Row(95, 50, "ALLOW")}

\* load_data(): the concatenation of the monthly files, any number of rows
load_data == UNION {[1..n -> Records] : n \in 0..MaxRecords}

\* ------------------------------------------------------------- classifier
\* the trust override without its risk guard
simulate_decision_unguarded(row, bt, rt, tov) ==
    LET decision == IF row.ml_risk_score >= bt THEN "BLOCK"
                    ELSE IF row.ml_risk_score >= rt THEN "REVIEW"
                    ELSE "ALLOW"
    IN  IF row.trust_score >= tov
        THEN "ALLOW"
        ELSE decision

\* the trust override with a strict comparison
simulate_decision_strict_trust(row, bt, rt, tov) ==
    LET decision == IF row.ml_risk_score >= bt THEN "BLOCK"
                    ELSE IF row.ml_risk_score >= rt THEN "REVIEW"
                    ELSE "ALLOW"
    IN  IF row.trust_score > tov /\ row.ml_risk_score < bt
        THEN "ALLOW"
        ELSE decision

\* the cascade falling back to REVIEW
simulate_decision_default_review(row, bt, rt, tov) ==
    LET decision == IF row.ml_risk_score >= bt THEN "BLOCK"
                    ELSE IF row.ml_risk_score >= rt THEN "REVIEW"
                    ELSE "REVIEW"
    IN  IF row.trust_score >= tov /\ row.ml_risk_score < bt
        THEN "ALLOW"
        ELSE decision

\* the review test with a strict comparison
simulate_decision_strict_review(row, bt, rt, tov) ==
    LET decision == IF row.ml_risk_score >= bt THEN "BLOCK"
                    ELSE IF row.ml_risk_score > rt THEN "REVIEW"
                    ELSE "ALLOW"
    IN  IF row.trust_score >= tov /\ row.ml_risk_score < bt
        THEN "ALLOW"
        ELSE decision

\* the trust override with the comparison the wrong way round
simulate_decision_trust_flipped(row, bt, rt, tov) ==
    LET decision == IF row.ml_risk_score >= bt THEN "BLOCK"
                    ELSE IF row.ml_risk_score >= rt THEN "REVIEW"
                    ELSE "ALLOW"
    IN  IF row.trust_score <= tov /\ row.ml_risk_score < bt
        THEN "ALLOW"
        ELSE decision

\* the closure variables block_threshold, review_threshold and
\* trust_override are passed as bt, rt and tov
simulate_decision(row, bt, rt, tov) ==
    LET decision == IF row.ml_risk_score >= bt THEN "BLOCK"
                    ELSE IF row.ml_risk_score >= rt THEN "REVIEW"
                    ELSE "ALLOW"
    IN  IF row.trust_score >= tov /\ row.ml_risk_score < bt
        THEN "ALLOW"
        ELSE decision

\* a decision variable that is not reset between rows: a row that takes no
\* branch of the cascade keeps the decision of the row before it
RECURSIVE apply_carry_from(_, _, _, _, _)
apply_carry_from(rows, prev, bt, rt, tov) ==
    IF rows = << >> THEN << >>
    ELSE LET row == Head(rows)
             decision == IF row.ml_risk_score >= bt THEN "BLOCK"
                         ELSE IF row.ml_risk_score >= rt THEN "REVIEW"
                         ELSE prev
             final == IF row.trust_score >= tov /\ row.ml_risk_score < bt
                      THEN "ALLOW"
                      ELSE decision
         IN  <<final>> \o apply_carry_from(Tail(rows), final, bt, rt, tov)

apply_carry(rows, bt, rt, tov) == apply_carry_from(rows, "ALLOW", bt, rt, tov)

\* DataFrame.apply(simulate_decision, axis=1): the function is called on the
\* rows in index order; a frame without rows gives a column without values
RECURSIVE apply(_, _, _, _)
apply(rows, bt, rt, tov) ==
    IF rows = << >> THEN << >>
    ELSE <<simulate_decision(Head(rows), bt, rt, tov)>> \o apply(Tail(rows), bt, rt, tov)

\* ------------------------------------------------------------- data frames
\* df.copy() gives sim_df an object of its own
copy_alias(ref) == ref

copy(ref) == "sim_df"

\* frame[name] = col
setitem(rows, name, col) ==
    [i \in DOMAIN rows |->
        [f \in (DOMAIN rows[i]) \cup {name} |-> IF f = name THEN col[i] ELSE rows[i][f]]]

\* frame[name]
column(rows, name) == [i \in DOMAIN rows |-> rows[i][name]]

\* ------------------------------------------------------------- arithmetic
\* The percentages are float64 values.  A natural number of any size is a
\* sequence of limbs in base 2^15, least significant first, without leading
\* zero limbs; a float64 is [s, m, e] with value s * m * 2^e, where m is zero
\* (no limbs) or has exactly 53 bits.
Base == 2 ^ 15

RECURSIVE BNorm(_)
BNorm(x) ==
    IF x = << >> THEN << >>
    ELSE IF x[Len(x)] = 0 THEN BNorm(SubSeq(x, 1, Len(x) - 1))
    ELSE x

\* 0 <= n < 2^31
BFromInt(n) == BNorm(<<n % Base, (n \div Base) % Base, n \div (Base * Base)>>)

\* x < 2^30
BToInt(x) ==
    IF x = << >> THEN 0
    ELSE IF Len(x) = 1 THEN x[1]
    ELSE x[1] + Base * x[2]

\* x * k + carry, 0 < k <= Base, carry < Base
RECURSIVE BMulAdd(_, _, _)
BMulAdd(x, k, carry) ==
    IF x = << >> THEN (IF carry = 0 THEN << >> ELSE <<carry>>)
    ELSE LET t == Head(x) * k + carry
         IN  <<t % Base>> \o BMulAdd(Tail(x), k, t \div Base)

\* quotient and remainder of x by d, 0 < d <= Base
RECURSIVE BDivMod(_, _)
BDivMod(x, d) ==
    IF x = << >> THEN [q |-> << >>, r |-> 0]
    ELSE LET hi == BDivMod(Tail(x), d)
             t == hi.r * Base + Head(x)
         IN  [q |-> IF hi.q = << >> /\ t < d THEN << >> ELSE <<t \div d>> \o hi.q,
              r |-> t % d]

RECURSIVE BAdd(_, _, _)
BAdd(x, y, carry) ==
    IF x = << >> /\ y = << >> THEN (IF carry = 0 THEN << >> ELSE <<carry>>)
    ELSE LET t == (IF x = << >> THEN 0 ELSE Head(x))
                  + (IF y = << >> THEN 0 ELSE Head(y)) + carry
         IN  <<t % Base>> \o BAdd(IF x = << >> THEN << >> ELSE Tail(x),
                                  IF y = << >> THEN << >> ELSE Tail(y),
                                  t \div Base)

\* x - y - borrow with leading zero limbs, x >= y + borrow
RECURSIVE BSubLimbs(_, _, _)
BSubLimbs(x, y, borrow) ==
    IF x = << >> THEN << >>
    ELSE LET t == Head(x) - (IF y = << >> THEN 0 ELSE Head(y)) - borrow
         IN  <<t % Base>> \o BSubLimbs(Tail(x),
                                       IF y = << >> THEN << >> ELSE Tail(y),
                                       IF t < 0 THEN 1 ELSE 0)

BSub(x, y) == BNorm(BSubLimbs(x, y, 0))

\* -1, 0 or 1 as x <, =, > y on the limbs i..1, both of the same length
RECURSIVE BCmpFrom(_, _, _)
BCmpFrom(x, y, i) ==
    IF i = 0 THEN 0
    ELSE IF x[i] < y[i] THEN -1
    ELSE IF x[i] > y[i] THEN 1
    ELSE BCmpFrom(x, y, i - 1)

BCmp(x, y) ==
    IF Len(x) < Len(y) THEN -1
    ELSE IF Len(x) > Len(y) THEN 1
    ELSE BCmpFrom(x, y, Len(x))

BitLen(x) ==
    IF x = << >> THEN 0
    ELSE 15 * (Len(x) - 1)
         + (CHOOSE k \in 1..15 : 2 ^ (k - 1) <= x[Len(x)] /\ x[Len(x)] < 2 ^ k)

\* x * 2^sh
BShl(x, sh) ==
    IF x = << >> THEN << >>
    ELSE BMulAdd([i \in 1..(sh \div 15) |-> 0] \o x, 2 ^ (sh % 15), 0)

\* x \div 2^sh
BShr(x, sh) ==
    IF sh \div 15 >= Len(x) THEN << >>
    ELSE BDivMod(SubSeq(x, (sh \div 15) + 1, Len(x)), 2 ^ (sh % 15)).q

\* x / 2^sh rounded to the nearest integer, ties to even; sticky says that
\* the value rounded is a little more than x
BShrRound(x, sh, sticky) ==
    IF sh = 0 THEN x
    ELSE LET q == BShr(x, sh)
             c == BCmp(BSub(x, BShl(q, sh)), BShl(<<1>>, sh - 1))
             up == \/ c = 1
                   \/ c = 0 /\ (sticky \/ (q # << >> /\ q[1] % 2 = 1))
         IN  IF up THEN BAdd(q, <<1>>, 0) ELSE q

\* the float64 nearest to s * n * 2^e (n > 0), ties to even
round_to_double(s, n, e, sticky) ==
    LET len == BitLen(n)
    IN  IF len <= 53
        THEN [s |-> s, m |-> BShl(n, 53 - len), e |-> e - (53 - len)]
        ELSE LET m == BShrRound(n, len - 53, sticky)
             IN  IF BitLen(m) > 53
                 THEN [s |-> s, m |-> BShr(m, 1), e |-> e + (len - 53) + 1]
                 ELSE [s |-> s, m |-> m, e |-> e + (len - 53)]

\* the integer 0 that .get falls back to
Zero == [s |-> 1, m |-> << >>, e |-> 0]

\* float64(k), 0 < k < 2^31
from_int(k) == round_to_double(1, BFromInt(k), 0, FALSE)

\* the first limbs fraction limbs of r / n, 0 <= r < n < 2^23, and the
\* remainder left; each limb is divided out in two steps of 8 and 7 bits
RECURSIVE LongDivide(_, _, _)
LongDivide(r, n, limbs) ==
    IF limbs = 0 THEN [q |-> << >>, r |-> r]
    ELSE LET r1 == (r * 256) % n
             rest == LongDivide((r1 * 128) % n, n, limbs - 1)
         IN  [q |-> rest.q \o <<((r * 256) \div n) * 128 + (r1 * 128) \div n>>,
              r |-> rest.r]

\* float64(c) / float64(n) for integers 0 < c <= n < 2^23: the quotient with
\* 90 fraction bits, rounded to 53 bits
true_divide(c, n) ==
    LET d == LongDivide(c % n, n, 6)
    IN  round_to_double(1, BNorm(d.q \o <<c \div n>>), -90, d.r # 0)

\* x * k for a float64 x # 0 and an integer 0 < k <= 2^15
mul(x, k) == round_to_double(x.s, BMulAdd(x.m, k, 0), x.e, FALSE)

\* a - b for float64 (or integer 0) a, b >= 0
sub(a, b) ==
    LET ea == IF a.m = << >> THEN b.e ELSE a.e
        eb == IF b.m = << >> THEN a.e ELSE b.e
        e0 == IF ea < eb THEN ea ELSE eb
        x == BShl(a.m, ea - e0)
        y == BShl(b.m, eb - e0)
        c == BCmp(x, y)
    IN  IF c = 0 THEN Zero
        ELSE IF c = 1 THEN round_to_double(1, BSub(x, y), e0, FALSE)
        ELSE round_to_double(-1, BSub(y, x), e0, FALSE)

\* the digits of f"{x:.2f}" as a number of hundredths: |x| * 100 rounded to
\* an integer, ties to even
format2(x) ==
    LET h == BMulAdd(x.m, 100, 0)
    IN  IF x.e >= 0 THEN BToInt(BShl(h, x.e))
        ELSE BToInt(BShrRound(h, -x.e, FALSE))

\* f"{x:+.2f}": the sign and the digits
format_plus2(x) == [sign |-> IF x.s = 1 THEN "+" ELSE "-", hundredths |-> format2(x)]

\* -------------------------------------------------------------- comparator
KeyError == [error |-> "KeyError"]

\* Series.value_counts() * 100 without normalize=True
value_counts_raw(col) ==
    [c \in {col[i] : i \in DOMAIN col} |->
        mul(from_int(Cardinality({i \in DOMAIN col : col[i] = c})), 100)]

\* Series.value_counts(normalize=True) * 100: one entry per value that
\* occurs, the share of the rows holding it times 100
value_counts(col) ==
    [c \in {col[i] : i \in DOMAIN col} |->
        mul(true_divide(Cardinality({i \in DOMAIN col : col[i] = c}), Len(col)), 100)]

\* dist[key]
getitem(dist, key, default) == IF key \in DOMAIN dist THEN dist[key] ELSE KeyError

\* dist.get(key, default)
get(dist, key, default) == IF key \in DOMAIN dist THEN dist[key] ELSE default

\* delta taken the wrong way round
metric_swapped(sim, orig, c) ==
    LET s == get(sim, c, Zero)
        o == get(orig, c, Zero)
    IN  IF s = KeyError \/ o = KeyError THEN KeyError
        ELSE [value |-> format2(s), delta |-> format_plus2(sub(o, s))]

\* dN.metric(label, f"{sim_dist.get(c, 0):.2f}",
\*           f"{sim_dist.get(c, 0) - orig_dist.get(c, 0):+.2f}")
metric(sim, orig, c) ==
    LET s == get(sim, c, Zero)
        o == get(orig, c, Zero)
    IN  IF s = KeyError \/ o = KeyError THEN KeyError
        ELSE [value |-> format2(s), delta |-> format_plus2(sub(s, o))]

\* d1, d2, d3 in script order; an exception ends the run, the metrics
\* rendered before it stay
MetricOrder == <<"ALLOW", "REVIEW", "BLOCK">>

render(sim, orig) ==
    LET m == [k \in 1..3 |-> metric(sim, orig, MetricOrder[k])]
        bad == {k \in 1..3 : m[k] = KeyError}
        done == {k \in 1..3 : \A j \in bad : k < j}
    IN  [metrics |-> [c \in {MetricOrder[k] : k \in done} |->
                        m[CHOOSE k \in done : MetricOrder[k] = c]],
         fault |-> bad # {}]

\* ----------------------------------------------------------- one script run
\* lines 138-176 with the dataset d and the slider values bt, rt, tov
run(d, bt, rt, tov) ==
    LET ref == copy("df")
        col == apply(d, bt, rt, tov)
        sim == setitem(d, "simulated_decision", col)
        dfAfter == IF ref = "df" THEN sim ELSE d
        sdist == value_counts(column(sim, "simulated_decision"))
        odist == value_counts(column(dfAfter, "decision"))
        out == render(sdist, odist)
    IN  [df |-> dfAfter, sim_df |-> sim, sim_dist |-> sdist, orig_dist |-> odist,
         metrics |-> out.metrics, fault |-> out.fault]

Rerun(bt, rt, tov) ==
    \E r \in {run(df, bt, rt, tov)} :
        /\ df' = r.df
        /\ sim_df' = r.sim_df
        /\ sim_dist' = r.sim_dist
        /\ orig_dist' = r.orig_dist
        /\ metrics' = r.metrics
        /\ fault' = r.fault

\* first run of the script: the dataset is loaded, the sliders are at their
\* default values
Init ==
    \E d \in load_data :
        \E r \in {run(d, BlockSlider.value, ReviewSlider.value, TrustSlider.value)} :
            /\ df = r.df
            /\ sim_df = r.sim_df
            /\ block_threshold = BlockSlider.value
            /\ review_threshold = ReviewSlider.value
            /\ trust_override = TrustSlider.value
            /\ min_risk = MinRiskSlider.value
            /\ sim_dist = r.sim_dist
            /\ orig_dist = r.orig_dist
            /\ metrics = r.metrics
            /\ fault = r.fault

MoveBlockSlider ==
    \E v \in BlockChoices \ {block_threshold} :
        /\ block_threshold' = v
        /\ Rerun(v, review_threshold, trust_override)
        /\ UNCHANGED <<review_threshold, trust_override, min_risk>>

MoveReviewSlider ==
    \E v \in ReviewChoices \ {review_threshold} :
        /\ review_threshold' = v
        /\ Rerun(block_threshold, v, trust_override)
        /\ UNCHANGED <<block_threshold, trust_override, min_risk>>

MoveTrustSlider ==
    \E v \in TrustChoices \ {trust_override} :
        /\ trust_override' = v
        /\ Rerun(block_threshold, review_threshold, v)
        /\ UNCHANGED <<block_threshold, review_threshold, min_risk>>

\* a widget of the Transaction Explorer tab: the script runs again with the
\* simulator's sliders where they were
MoveMinRiskSlider ==
    \E v \in MinRiskChoices \ {min_risk} :
        /\ min_risk' = v
        /\ Rerun(block_threshold, review_threshold, trust_override)
        /\ UNCHANGED <<block_threshold, review_threshold, trust_override>>

Next ==
    \/ MoveBlockSlider
    \/ MoveReviewSlider
    \/ MoveTrustSlider
    \/ MoveMinRiskSlider

Spec == Init /\ [][Next]_vars

\* ------------------------------------------------------------------ claims
Rows == DOMAIN sim_df
Risk(i) == sim_df[i].ml_risk_score
Trust(i) == sim_df[i].trust_score
Sim(i) == sim_df[i].simulated_decision

NotDefaults ==
    \/ block_threshold # BlockSlider.value
    \/ review_threshold # ReviewSlider.value
    \/ trust_override # TrustSlider.value

\* C1: a record whose risk score is at or above the block threshold is
\* simulated as BLOCK whatever its trust score and whatever the order of the
\* two risk thresholds
C1_BlockAtOrAboveThreshold ==
    \A i \in Rows : Risk(i) >= block_threshold => Sim(i) = "BLOCK"

C1_Witness ==
    \E i \in Rows :
        /\ Risk(i) = block_threshold
        /\ Trust(i) >= trust_override
        /\ review_threshold > block_threshold
        /\ Sim(i) = "BLOCK"

\* C2: a record below the block threshold whose trust score is at or above
\* the trust override is simulated as ALLOW, also when its risk score is at
\* or above the review threshold
C2_TrustOverrideAllows ==
    \A i \in Rows :
        (Risk(i) < block_threshold /\ Trust(i) >= trust_override) => Sim(i) = "ALLOW"

C2_Witness ==
    \E i \in Rows :
        /\ Risk(i) >= review_threshold
        /\ Risk(i) < block_threshold
        /\ Trust(i) = trust_override
        /\ Sim(i) = "ALLOW"

\* C3 as stated: a record below the review threshold whose trust score is
\* below the trust override is simulated as ALLOW under every threshold
\* configuration
C3_Original ==
    \A i \in Rows :
        (Risk(i) < review_threshold /\ Trust(i) < trust_override) => Sim(i) = "ALLOW"

\* C3 amended: a record below the review threshold and below the block
\* threshold whose trust score is below the trust override is simulated as
\* ALLOW
C3_BelowBothThresholdsAllows ==
    \A i \in Rows :
        (/\ Risk(i) < review_threshold
         /\ Risk(i) < block_threshold
         /\ Trust(i) < trust_override) => Sim(i) = "ALLOW"

C3_Witness ==
    \E i \in Rows :
        /\ Risk(i) < block_threshold
        /\ block_threshold < review_threshold
        /\ Trust(i) < trust_override
        /\ Sim(i) = "ALLOW"

\* C4: a record is simulated as REVIEW exactly when its risk score is at or
\* above the review threshold and below the block threshold and its trust
\* score is below the trust override; every other record is ALLOW or BLOCK,
\* and no record is REVIEW when the review threshold is at or above the
\* block threshold
C4_ReviewExactly ==
    /\ \A i \in Rows :
          /\ Sim(i) \in Decisions
          /\ Sim(i) = "REVIEW" <=>
                (/\ review_threshold <= Risk(i)
                 /\ Risk(i) < block_threshold
                 /\ Trust(i) < trust_override)
    /\ review_threshold >= block_threshold => \A i \in Rows : Sim(i) # "REVIEW"

C4_Witness ==
    \E i \in Rows :
        /\ Risk(i) = review_threshold
        /\ Risk(i) < block_threshold
        /\ Trust(i) < trust_override
        /\ Sim(i) = "REVIEW"

\* number of rows of sim_df with the value c in the column name
RECURSIVE CountFrom(_, _, _)
CountFrom(i, name, c) ==
    IF i = 0 THEN 0
    ELSE CountFrom(i - 1, name, c) + (IF sim_df[i][name] = c THEN 1 ELSE 0)

Count(name, c) == CountFrom(Len(sim_df), name, c)

SimPct(c) == get(sim_dist, c, Zero)
OrigPct(c) == get(orig_dist, c, Zero)

\* 100 * count / total as the comparator computes it in float64; a category
\* without rows is the integer 0
Pct(count, total) == IF count = 0 THEN Zero ELSE mul(true_divide(count, total), 100)

\* the exact sum of the three simulated percentages and 100, both in units
\* of 2^SumExp, and the distance between them
SumExp ==
    CHOOSE e \in {SimPct(c).e : c \in DOMAIN sim_dist} :
        \A c \in DOMAIN sim_dist : e <= SimPct(c).e

Scaled(x) == IF x.m = << >> THEN << >> ELSE BShl(x.m, x.e - SumExp)

PctSum == BAdd(BAdd(Scaled(SimPct("ALLOW")), Scaled(SimPct("REVIEW")), 0),
               Scaled(SimPct("BLOCK")), 0)

Hundred == BShl(BFromInt(100), -SumExp)

SumError ==
    IF BCmp(PctSum, Hundred) >= 0 THEN BSub(PctSum, Hundred) ELSE BSub(Hundred, PctSum)

CountsAddUp ==
    /\ \A c \in Decisions : SimPct(c) = Pct(Count("simulated_decision", c), Len(df))
    /\ Count("simulated_decision", "ALLOW") + Count("simulated_decision", "REVIEW")
          + Count("simulated_decision", "BLOCK") = Len(df)

\* C5 as stated: for a non-empty record set the simulated percentages of
\* ALLOW, REVIEW and BLOCK add up to 100, each being 100 * count / total, and
\* the three counts add up to the number of records
C5_Original ==
    Len(df) > 0 => (CountsAddUp /\ SumError = << >>)

\* C5 amended: for a non-empty record set the three simulated counts add up
\* to the number of records, each percentage is the float64 value of
\* 100 * count / total, and the three percentages add up to 100 up to float64
\* rounding: their exact sum is less than 2^-40 away from 100
C5_PercentagesAddUp ==
    Len(df) > 0 =>
        /\ CountsAddUp
        /\ SumError = << >> \/ BitLen(SumError) + SumExp <= -40

C5_Witness ==
    /\ Len(df) = 3
    /\ NotDefaults
    /\ Cardinality(DOMAIN sim_dist) = 2
    /\ SumError # << >>

\* C6: with an empty record set the run completes without a fault and
\* reports 0 as simulated percentage, original percentage and delta of each
\* of the three categories
C6_EmptyReportsZero ==
    Len(df) = 0 =>
        /\ ~fault
        /\ DOMAIN metrics = Decisions
        /\ \A c \in Decisions :
              /\ SimPct(c) = Zero
              /\ OrigPct(c) = Zero
              /\ metrics[c].value = 0
              /\ metrics[c].delta = [sign |-> "+", hundredths |-> 0]

C6_Witness ==
    /\ Len(df) = 0
    /\ NotDefaults
    /\ sim_df = << >>
    /\ ~fault

\* C7: all three categories are reported; a category that no simulated
\* (original) decision has counts as 0%, and the delta is the simulated
\* percentage minus the original percentage, both over the same records
C7_AllCategoriesReported ==
    /\ ~fault
    /\ DOMAIN metrics = Decisions
    /\ Len(sim_df) = Len(df)
    /\ \A c \in Decisions :
          LET ns == Count("simulated_decision", c)
              no == Count("decision", c)
          IN  /\ metrics[c].value = format2(Pct(ns, Len(df)))
              /\ metrics[c].delta = format_plus2(sub(Pct(ns, Len(df)), Pct(no, Len(df))))
              /\ ns = 0 => metrics[c].value = 0
              /\ no = 0 => metrics[c].delta = [sign |-> "+", hundredths |-> metrics[c].value]

C7_Witness ==
    \E c \in Decisions :
        /\ Count("simulated_decision", c) = 0
        /\ Count("decision", c) > 0
        /\ NotDefaults
        /\ c \in DOMAIN metrics
        /\ metrics[c].value = 0
        /\ metrics[c].delta.sign = "-"
        /\ metrics[c].delta.hundredths = 3333

\* C8: a run leaves the source dataset as it was loaded: no run changes df
\* or the original distribution, and df never carries the simulated column
C8_SourceUnchanged ==
    /\ [](df \in load_data)
    /\ [][df' = df /\ orig_dist' = orig_dist]_vars

C8_Witness ==
    /\ NotDefaults
    /\ \E i \in Rows :
          /\ Sim(i) # sim_df[i].decision
          /\ "simulated_decision" \notin DOMAIN df[i]

\* C9: the decision of a record depends on that record and the thresholds
\* only: classifying the records in any order, or in two shards whose
\* results are concatenated, gives every record the same decision and the
\* same distribution, and a run with unchanged thresholds repeats the result
Perms(n) == {p \in [1..n -> 1..n] : \A i, j \in 1..n : p[i] = p[j] => i = j}
Permute(s, p) == [i \in DOMAIN s |-> s[p[i]]]
SimColumn == column(sim_df, "simulated_decision")
ApplyNow(rows) == apply(rows, block_threshold, review_threshold, trust_override)

C9_OrderIndependent ==
    /\ \A p \in Perms(Len(df)) :
          LET col == ApplyNow(Permute(df, p))
          IN  /\ col = Permute(SimColumn, p)
              /\ value_counts(col) = sim_dist
    /\ \A k \in 0..Len(df) :
          ApplyNow(SubSeq(df, 1, k)) \o ApplyNow(SubSeq(df, k + 1, Len(df))) = SimColumn

C9_Repeatable ==
    [][(/\ block_threshold' = block_threshold
        /\ review_threshold' = review_threshold
        /\ trust_override' = trust_override)
       => (sim_df' = sim_df /\ sim_dist' = sim_dist /\ metrics' = metrics)]_vars

C9_IndependentRecords == []C9_OrderIndependent /\ C9_Repeatable

C9_Witness ==
    /\ Len(df) = 2
    /\ Sim(1) # Sim(2)
    /\ min_risk # MinRiskSlider.value
    /\ NotDefaults

\* C10: with the block threshold at or above the review threshold, a higher
\* risk score at the same trust score never gets a less strict decision, and
\* a higher trust score at the same risk score never gets a stricter one,
\* under the order ALLOW < REVIEW < BLOCK
Rank(d) == CASE d = "ALLOW" -> 0 [] d = "REVIEW" -> 1 [] d = "BLOCK" -> 2

C10_Monotone ==
    block_threshold >= review_threshold =>
        \A i, j \in Rows :
            /\ (Trust(i) = Trust(j) /\ Risk(i) <= Risk(j)) => Rank(Sim(i)) <= Rank(Sim(j))
            /\ (Risk(i) = Risk(j) /\ Trust(i) <= Trust(j)) => Rank(Sim(j)) <= Rank(Sim(i))

C10_Witness ==
    /\ block_threshold >= review_threshold
    /\ \E i, j \in Rows :
          /\ Trust(i) = Trust(j)
          /\ Risk(i) < Risk(j)
          /\ Rank(Sim(i)) < Rank(Sim(j))

====
